---- MODULE Spec2Model ----
(***************************************************************************)
(* The serverless proxy handler of api/generate.js as a state machine.     *)
(*                                                                         *)
(* One invocation of handler(request, response) runs in three atomic       *)
(* segments, separated by its two awaits: from the call to the first await *)
(* (Invoke), from the settlement of generateContent to the second await    *)
(* (TextResolve / TextReject), and from the settlement of generateImages   *)
(* to the end (ImageResolve / ImageReject).  Several invocations may be    *)
(* suspended at their awaits at the same time.  The file holds the module  *)
(* twice (lines 1-96 and 98-211); as it stands it does not parse and no    *)
(* handler runs.  The handler modelled is that of either copy deployed     *)
(* alone: the second differs from the first in its console logging only,   *)
(* which changes no state.                                                 *)
(*                                                                         *)
(* JavaScript values are records tagged by t; strings are sequences of     *)
(* pieces (the characters of a word, the literal parts of a template, the  *)
(* lexemes of a reply text), so that concatenation is \o.                  *)
(***************************************************************************)
EXTENDS Integers, Sequences, FiniteSets, TLC

\* Longest word of a request, in characters.
MaxWordLen == 2
\* Number of invocations that may be in flight together.
NumInv == 2

Inv == 1..NumInv

(***************************** JavaScript values ***************************)
Undefined == [t |-> "undefined"]
Null == [t |-> "null"]
Str(s) == [t |-> "string", s |-> s]
Arr(a) == [t |-> "array", a |-> a]
Obj(o) == [t |-> "object", o |-> o]
JSError(name, message) == [t |-> "error", name |-> name, message |-> Str(message)]

\* `!v` of a query value: undefined, null and the empty string are falsy,
\* an array (even an empty one) is truthy.
isFalsy(v) == v = Undefined \/ v = Null \/ v = Str(<< >>)

\* String(v) as a template literal computes it for the values met here.
ToStr(v) ==
  CASE v.t = "string" -> v.s
    [] v.t = "undefined" -> <<"undefined">>
    [] v.t = "null" -> <<"null">>
    [] OTHER -> <<"[object Object]">>

\* v[key] of a value that is neither undefined nor null: an own property of an
\* object, undefined otherwise (a primitive has no such property).
getProp(v, key) ==
  IF v.t = "object" /\ key \in DOMAIN v.o THEN v.o[key] ELSE Undefined

(******************************* the word **********************************)
Alphabet == {"a", "A", "b", "B", "1"}
upperChar(c) == CASE c = "a" -> "A" [] c = "b" -> "B" [] OTHER -> c

\* String.prototype.toUpperCase, character by character.
toUpperCaseFirstOnly(s) ==
  [k \in 1..Len(s) |-> IF k = 1 THEN upperChar(s[k]) ELSE s[k]]
toUpperCase(s) == [k \in 1..Len(s) |-> upperChar(s[k])]

WordsOfLen(n) == [1..n -> Alphabet]
Words == UNION {WordsOfLen(n) : n \in 0..MaxWordLen}

\* request.query.word: absent, a string (possibly empty), or the array a
\* repeated query parameter gives.
Queries ==
  {Undefined} \cup {Str(w) : w \in Words}
    \cup {Arr(<<Str(<<"a">>), Str(<<"b">>)>>)}

(******************************* prompts ***********************************)
\* The prompt template of step A, around the word it is given.
textPromptOf(w) ==
  <<"For the word \"">> \o w
    \o <<"\", provide a concise definition and a sample sentence clue. Format the response as a single, valid JSON object with the keys \"definition\" and \"sentenceClue\". Do not include any text, headers, or markdown outside of the JSON object.">>

\* The prompt template of step B, around the word it is given.
imagePromptOf(w) ==
  <<"A simple, colorful, educational illustration of the word: ">> \o w

(************************ JSON.parse(text.trim()) **************************)
(* A reply text is a sequence of lexemes.  The parser below is JSON.parse  *)
(* on the texts these lexemes make: a value is null, a string literal or   *)
(* an object of such values.                                               *)
(***************************************************************************)
BOM == "<U+FEFF>"
\* What String.prototype.trim strips, and the part of it JSON.parse skips.
TrimWhitespace == {" ", BOM}
JSONWhitespace == {" "}
StringLiterals ==
  {"\"definition\"", "\"sentenceClue\"", "\"d1\"", "\"s1\"", "\"d2\"", "\"s2\""}
unquote(lex) ==
  CASE lex = "\"definition\"" -> "definition"
    [] lex = "\"sentenceClue\"" -> "sentenceClue"
    [] lex = "\"d1\"" -> "d1"
    [] lex = "\"s1\"" -> "s1"
    [] lex = "\"d2\"" -> "d2"
    [] lex = "\"s2\"" -> "s2"

trim(text) ==
  LET keep == {k \in 1..Len(text) : text[k] \notin TrimWhitespace}
  IN IF keep = {} THEN << >>
     ELSE LET lo == CHOOSE k \in keep : \A j \in keep : k <= j
              hi == CHOOSE k \in keep : \A j \in keep : j <= k
          IN SubSeq(text, lo, hi)

\* The characters of a lexeme (the byte order mark is one character).
chars(lex) ==
  CASE lex = "null" -> <<"n", "u", "l", "l">>
    [] lex = "Sorry" -> <<"S", "o", "r", "r", "y">>
    [] lex = "\"definition\"" ->
         <<"\"", "d", "e", "f", "i", "n", "i", "t", "i", "o", "n", "\"">>
    [] lex = "\"sentenceClue\"" ->
         <<"\"", "s", "e", "n", "t", "e", "n", "c", "e", "C", "l", "u", "e", "\"">>
    [] lex = "\"d1\"" -> <<"\"", "d", "1", "\"">>
    [] lex = "\"s1\"" -> <<"\"", "s", "1", "\"">>
    [] lex = "\"d2\"" -> <<"\"", "d", "2", "\"">>
    [] lex = "\"s2\"" -> <<"\"", "s", "2", "\"">>
    [] OTHER -> <<lex>>

\* The characters of a text.
RECURSIVE sourceChars(_)
sourceChars(text) ==
  IF text = << >> THEN << >> ELSE chars(Head(text)) \o sourceChars(Tail(text))

\* The index of the first lexeme from k on that JSON.parse does not skip as
\* whitespace; Len(text) + 1 at the end of the input.
RECURSIVE skipWhitespace(_, _)
skipWhitespace(text, k) ==
  IF k <= Len(text) /\ text[k] \in JSONWhitespace THEN skipWhitespace(text, k + 1)
  ELSE k

IsScalar(lex) == lex = "null" \/ lex \in StringLiterals
scalarValue(lex) == IF lex = "null" THEN Null ELSE Str(<<unquote(lex)>>)

\* A parse result: the value (with the index of the lexeme after it), or the
\* syntax error: what the parser expected and the index of the lexeme it met
\* instead (Len(text) + 1 at the end of the input).
ParsedOk(v) == [ok |-> TRUE, value |-> v]
ParsedTo(v, next) == [ok |-> TRUE, value |-> v, next |-> next]
ParseErrorAt(expected, k) == [ok |-> FALSE, expected |-> expected, at |-> k]

EmptyObject == [k \in {} |-> Undefined]

\* A value from lexeme k0 on, and the members of an object from lexeme k on
\* (a property name is expected there); a repeated key keeps its last value.
\* The parser names what it expected after the first property name of an
\* object only: a later name without its colon is an unexpected token.
RECURSIVE parseValue(_, _)
RECURSIVE parseMembers(_, _, _, _)
parseValue(text, k0) ==
  LET k == skipWhitespace(text, k0)
  IN IF k > Len(text) THEN ParseErrorAt("value", k)
     ELSE IF IsScalar(text[k]) THEN ParsedTo(scalarValue(text[k]), k + 1)
     ELSE IF text[k] = "{"
     THEN LET j == skipWhitespace(text, k + 1)
          IN IF j <= Len(text) /\ text[j] = "}"
             THEN ParsedTo(Obj(EmptyObject), j + 1)
             ELSE parseMembers(text, j, EmptyObject, "property name or '}'")
     ELSE ParseErrorAt("value", k)
parseMembers(text, k, acc, expected) ==
  IF k > Len(text) \/ text[k] \notin StringLiterals
  THEN ParseErrorAt(expected, k)
  ELSE LET c == skipWhitespace(text, k + 1)
       IN IF c > Len(text) \/ text[c] # ":"
          THEN IF expected = "property name or '}'"
               THEN ParseErrorAt("':' after property name", c)
               ELSE ParseErrorAt("':'", c)
          ELSE LET v == parseValue(text, c + 1)
               IN IF ~v.ok THEN v
                  ELSE LET now == (unquote(text[k]) :> v.value) @@ acc
                           n == skipWhitespace(text, v.next)
                       IN IF n <= Len(text) /\ text[n] = ","
                          THEN parseMembers(text, skipWhitespace(text, n + 1), now,
                                            "double-quoted property name")
                          ELSE IF n <= Len(text) /\ text[n] = "}"
                          THEN ParsedTo(Obj(now), n + 1)
                          ELSE ParseErrorAt("',' or '}' after property value", n)

JSONparse(text) ==
  LET v == parseValue(text, 1)
  IN IF ~v.ok THEN v
     ELSE LET n == skipWhitespace(text, v.next)
          IN IF n <= Len(text)
             THEN ParseErrorAt("non-whitespace character after JSON", n)
             ELSE ParsedOk(v.value)

\* The message of the SyntaxError JSON.parse throws (V8 of Node.js 20).  Where
\* a value, or the colon of a later property, was expected: at the end of the
\* input "Unexpected end of JSON input"; at a string literal "Unexpected
\* string" and the character offset; at any other character that character
\* and the source, whole when shorter than 21 characters, else the 10
\* characters on each side of it.  Elsewhere: what was expected and the
\* character offset.
SyntaxErrorMessage(text, res) ==
  LET cs == sourceChars(text)
      n == Len(cs)
      pos == Len(sourceChars(SubSeq(text, 1, res.at - 1)))
  IN IF res.expected \in {"value", "':'"}
     THEN IF res.at > Len(text) THEN <<"Unexpected end of JSON input">>
          ELSE IF text[res.at] \in StringLiterals
          THEN <<"Unexpected string in JSON at position ", ToString(pos)>>
          ELSE LET head == <<"Unexpected token '", cs[pos + 1], "', ">>
               IN IF n < 21
                  THEN head \o <<"\"">> \o cs \o <<"\" is not valid JSON">>
                  ELSE IF pos < 10
                  THEN head \o <<"\"">> \o SubSeq(cs, 1, pos + 10)
                         \o <<"\"... is not valid JSON">>
                  ELSE IF pos < n - 10
                  THEN head \o <<"...\"">> \o SubSeq(cs, pos - 9, pos + 10)
                         \o <<"\"... is not valid JSON">>
                  ELSE head \o <<"...\"">> \o SubSeq(cs, pos - 9, n)
                         \o <<"\" is not valid JSON">>
     ELSE IF res.expected = "non-whitespace character after JSON"
     THEN <<"Unexpected non-whitespace character after JSON at position ", ToString(pos)>>
     ELSE <<"Expected ", res.expected, " in JSON at position ", ToString(pos)>>

(************************ the collaborators' replies ***********************)
FullReply(d, s) ==
  <<"{", "\"definition\"", ":", d, ",", "\"sentenceClue\"", ":", s, "}">>
Full1 == FullReply("\"d1\"", "\"s1\"")
Full2 == FullReply("\"d2\"", "\"s2\"")
NoClueReply == <<"{", "\"definition\"", ":", "\"d1\"", "}">>
NoDefinitionReply == <<"{", "\"sentenceClue\"", ":", "\"s1\"", "}">>
TruncatedReply == <<"{", "\"definition\"", ":", "\"d1\"">>

\* What generateContent can resolve to: a reply whose text is missing, or a
\* reply with a text.
ReplyTexts ==
  {Full1, Full2, <<" ">> \o Full1 \o <<" ">>, <<BOM>> \o Full1,
   NoClueReply, NoDefinitionReply, <<"{", "}">>, <<"null">>, <<"\"d1\"">>,
   TruncatedReply, <<"Sorry">>, <<"{", "\"definition\"", BOM, "}">>, << >>,
   FullReply("Sorry", "\"s1\""), Full1 \o <<"Sorry">>,
   <<"{", "\"definition\"", ":", "{", "}", ",", "}">>,
   <<"{", "\"d1\"", ":", "null", ",", "\"d1\"", ",">>,
   <<"{", "\"d1\"", ":", "null", ",", "\"d1\"">>,
   <<"{", "\"d1\"", ":", "null", ",", "\"d1\"", "\"d1\"">>,
   <<"{", "\"definition\"", ":", "\"d1\"", ",", "\"sentenceClue\"", "Sorry">>}
TextResolutions ==
  {[text |-> Undefined], [text |-> Null]} \cup {[text |-> Str(x)] : x \in ReplyTexts}
ConcTextResolutions ==
  {[text |-> Str(x)] : x \in {Full1, Full2, TruncatedReply}}

\* What generateImages can resolve to.
ImageEntry(bytes) == [image |-> Obj([imageBytes |-> Str(<<bytes>>)])]
ImageResolutions ==
  {[generatedImages |-> Undefined],
   [generatedImages |-> Null],
   [generatedImages |-> Arr(<< >>)],
   [generatedImages |-> Arr(<<Null>>)],
   [generatedImages |-> Arr(<<[image |-> Undefined]>>)],
   [generatedImages |-> Arr(<<[image |-> Null]>>)],
   [generatedImages |-> Arr(<<[image |-> Obj(EmptyObject)]>>)],
   [generatedImages |-> Arr(<<[image |-> Obj([imageBytes |-> Null])]>>)],
   [generatedImages |-> Arr(<<ImageEntry("QUJD")>>)],
   [generatedImages |-> Arr(<<ImageEntry("REVG"), ImageEntry("QUJD")>>)]}
ConcImageResolutions ==
  {[generatedImages |-> Arr(<<ImageEntry("QUJD")>>)],
   [generatedImages |-> Arr(<<ImageEntry("REVG"), ImageEntry("QUJD")>>)]}

\* The errors a collaborator call can fail with (Error objects, as the SDK
\* rejects with).
CallErrors ==
  {JSError("Error", <<"fetch failed">>), JSError("ApiError", <<"API key not valid">>)}
ConcCallErrors == {JSError("Error", <<"fetch failed">>)}

\* The requests of the runs with several invocations in flight.
ConcQueries ==
  {Undefined, Str(<<"a", "b">>), Str(<<"A", "b">>), Str(<<"b">>),
   Arr(<<Str(<<"a">>), Str(<<"b">>)>>)}

(********************************* state ***********************************)
VARIABLES
  GEMINI_API_KEY,  \* process.env.GEMINI_API_KEY as read when the module loads
  deployed,        \* what is deployed as the module
  pc,              \* where each invocation is
  query,           \* request.query.word of each invocation
  originalWord,    \* the binding originalWord of each invocation
  clueData,        \* the binding clueData of each invocation
  textCalls,       \* the prompts each invocation passed to generateContent
  imageCalls,      \* the prompts each invocation passed to generateImages
  textReply,       \* how each invocation's generateContent call settled
  imageReply,      \* how each invocation's generateImages call settled
  responses,       \* the responses each invocation emitted, in order
  thrown           \* the error that escaped each invocation, if one did

vars ==
  <<GEMINI_API_KEY, deployed, pc, query, originalWord, clueData, textCalls, imageCalls,
    textReply, imageReply, responses, thrown>>

Pending == [k |-> "pending"]
NotIssued == [k |-> "none"]

\* What can be deployed as api/generate.js: the file as it stands, which holds
\* the module twice, or one of the two copies alone.
Deployments == {"whole file", "one copy"}

\* The module exports a handler.  The file as it stands declares its imports,
\* GEMINI_API_KEY, ai, imageAi and the default export twice in one module
\* scope: it does not parse, whatever the key.  A copy alone loads unless the
\* key is missing, in which case its top level throws.
moduleLoaded == deployed = "one copy" /\ ~isFalsy(GEMINI_API_KEY)

\* The bindings word, originalWord and clueData are local to a call of handler:
\* each invocation has its own.
sharedFrame(i) == 1
frame(i) == i

Init ==
  /\ GEMINI_API_KEY \in {Undefined, Str(<<"k">>)}
  /\ deployed \in Deployments
  /\ pc = [i \in Inv |-> "idle"]
  /\ query = [i \in Inv |-> Undefined]
  /\ originalWord = [i \in Inv |-> Undefined]
  /\ clueData = [i \in Inv |-> Undefined]
  /\ textCalls = [i \in Inv |-> << >>]
  /\ imageCalls = [i \in Inv |-> << >>]
  /\ textReply = [i \in Inv |-> NotIssued]
  /\ imageReply = [i \in Inv |-> NotIssued]
  /\ responses = [i \in Inv |-> << >>]
  /\ thrown = [i \in Inv |-> Undefined]

(******************************* responses *********************************)
\* JSON serialisation of a body: a property whose value is undefined is left out.
json(body) == [k \in {x \in DOMAIN body : body[x] # Undefined} |-> body[k]]

missingWordBody == [error |-> Str(<<"Missing word parameter.">>)]

errorBody(error) ==
  [error |-> Str(<<"Failed to generate word data or image.">>),
   details |-> error.message]

dataUrl(imageBase64) == Str(<<"data:image/jpeg;base64,">> \o ToStr(imageBase64))

successBody(ow, clue, imageUrl) ==
  [originalWord |-> ow,
   definition |-> getProp(clue, "definition"),
   sentenceClue |-> getProp(clue, "sentenceClue"),
   imageUrl |-> imageUrl]

\* response.status(status).json(body)
Respond(i, status, body) ==
  responses' = [responses EXCEPT ![i] = Append(@, [status |-> status, body |-> json(body)])]

\* The catch block: one 500 response, and the handler returns.
Catch(i, error) ==
  /\ Respond(i, 500, errorBody(error))
  /\ pc' = [pc EXCEPT ![i] = "returned"]

\* Reading a property of undefined or of null throws a TypeError.
Nullish(v) == v = Undefined \/ v = Null
TypeErrorReading(of, prop) ==
  JSError("TypeError",
          <<"Cannot read properties of ", of.t, " (reading '", prop, "')">>)

(******************************** handler **********************************)
\* Line "const clueData = JSON.parse(geminiResponse.text.trim())" on a reply:
\* the value, or the error it throws.
Thrown(error) == [ok |-> FALSE, error |-> error]
parseReply(r) ==
  IF Nullish(r) THEN Thrown(TypeErrorReading(r, "text"))
  ELSE IF Nullish(r.text) THEN Thrown(TypeErrorReading(r.text, "trim"))
  ELSE LET text == trim(r.text.s)
           res == JSONparse(text)
       IN IF res.ok THEN res
          ELSE Thrown(JSError("SyntaxError", SyntaxErrorMessage(text, res)))

\* Steps B (after its await) and C on an image reply: the body of the 200
\* response, or the TypeError thrown on the way: the reply, generatedImages,
\* its first entry or that entry's image is undefined or null, or clueData is
\* null.
finish(ow, clue, r) ==
  IF Nullish(r) THEN Thrown(TypeErrorReading(r, "generatedImages"))
  ELSE IF Nullish(r.generatedImages)
  THEN Thrown(TypeErrorReading(r.generatedImages, "0"))
  ELSE IF Len(r.generatedImages.a) = 0
  THEN Thrown(TypeErrorReading(Undefined, "image"))
  ELSE IF Nullish(r.generatedImages.a[1])
  THEN Thrown(TypeErrorReading(r.generatedImages.a[1], "image"))
  ELSE IF Nullish(r.generatedImages.a[1].image)
  THEN Thrown(TypeErrorReading(r.generatedImages.a[1].image, "imageBytes"))
  ELSE IF clue = Null THEN Thrown(TypeErrorReading(Null, "definition"))
  ELSE ParsedOk(successBody(ow, clue,
                  dataUrl(getProp(r.generatedImages.a[1].image, "imageBytes"))))

\* The try block up to its first await: build the prompt of step A from the
\* uppercased word and issue generateContent.
StepAFanOut(i, ow) ==
  /\ textCalls' = [textCalls EXCEPT ![i] = Append(@, textPromptOf(ow.s))]
  /\ textReply' = [textReply EXCEPT ![i] = Pending]
  /\ imageCalls' = [imageCalls EXCEPT ![i] = Append(@, imagePromptOf(ow.s))]
  /\ imageReply' = [imageReply EXCEPT ![i] = Pending]
  /\ pc' = [pc EXCEPT ![i] = "awaitText"]
StepA(i, ow) ==
  /\ textCalls' = [textCalls EXCEPT ![i] = Append(@, textPromptOf(ow.s))]
  /\ textReply' = [textReply EXCEPT ![i] = Pending]
  /\ pc' = [pc EXCEPT ![i] = "awaitText"]
  /\ UNCHANGED <<imageCalls, imageReply>>

\* The prompt of step B, built after the reply of step A was parsed.
imagePrompt(i) == imagePromptOf(originalWord[frame(i)].s)

\* handler is called with a request: from its first line to its first await,
\* its early return, or the TypeError of word.toUpperCase() on a word that is
\* no string, which is thrown before the try block and rejects the promise
\* handler returns.
Invoke(i, Q) ==
  /\ moduleLoaded
  /\ pc[i] = "idle"
  /\ \E q \in Q :
       /\ query' = [query EXCEPT ![i] = q]
       /\ IF isFalsy(q)
          THEN /\ Respond(i, 400, missingWordBody)
               /\ pc' = [pc EXCEPT ![i] = "returned"]
               /\ UNCHANGED <<originalWord, textCalls, textReply, imageCalls,
                              imageReply, thrown>>
          ELSE IF q.t # "string"
          THEN /\ thrown' = [thrown EXCEPT ![i] =
                     JSError("TypeError", <<"word.toUpperCase is not a function">>)]
               /\ pc' = [pc EXCEPT ![i] = "rejected"]
               /\ UNCHANGED <<originalWord, textCalls, textReply, imageCalls,
                              imageReply, responses>>
          ELSE /\ originalWord' =
                    [originalWord EXCEPT ![frame(i)] = Str(toUpperCase(q.s))]
               /\ StepA(i, originalWord'[frame(i)])
               /\ UNCHANGED <<responses, thrown>>
  /\ UNCHANGED <<GEMINI_API_KEY, deployed, clueData>>

\* generateContent resolves: parse the reply's text, then build the prompt of
\* step B and issue generateImages; a missing text or a text that does not
\* parse throws into the catch block.
TextResolve(i, R) ==
  /\ pc[i] = "awaitText"
  /\ \E r \in R :
       /\ textReply' = [textReply EXCEPT ![i] = [k |-> "resolved", value |-> r]]
       /\ LET res == parseReply(r)
          IN IF ~res.ok
             THEN /\ Catch(i, res.error)
                  /\ UNCHANGED <<clueData, imageCalls, imageReply>>
             ELSE /\ clueData' = [clueData EXCEPT ![frame(i)] = res.value]
                  /\ imageCalls' = [imageCalls EXCEPT ![i] = Append(@, imagePrompt(i))]
                  /\ imageReply' = [imageReply EXCEPT ![i] = Pending]
                  /\ pc' = [pc EXCEPT ![i] = "awaitImage"]
                  /\ UNCHANGED responses
  /\ UNCHANGED <<GEMINI_API_KEY, deployed, query, originalWord, textCalls, thrown>>

\* generateContent fails: the catch block.
TextReject(i, E) ==
  /\ pc[i] = "awaitText"
  /\ \E e \in E :
       /\ textReply' = [textReply EXCEPT ![i] = [k |-> "rejected", error |-> e]]
       /\ Catch(i, e)
  /\ UNCHANGED <<GEMINI_API_KEY, deployed, query, originalWord, clueData, textCalls,
                 imageCalls, imageReply, thrown>>

\* generateImages resolves: read generatedImages[0].image.imageBytes, wrap it
\* as a data URL and send the 200 response; a TypeError on the way goes to the
\* catch block.
ImageResolve(i, R) ==
  /\ pc[i] = "awaitImage"
  /\ \E r \in R :
       /\ imageReply' = [imageReply EXCEPT ![i] = [k |-> "resolved", value |-> r]]
       /\ LET res == finish(originalWord[frame(i)], clueData[frame(i)], r)
          IN IF ~res.ok
             THEN Catch(i, res.error)
             ELSE /\ Respond(i, 200, res.value)
                  /\ pc' = [pc EXCEPT ![i] = "returned"]
  /\ UNCHANGED <<GEMINI_API_KEY, deployed, query, originalWord, clueData, textCalls,
                 imageCalls, textReply, thrown>>

\* generateImages fails: the catch block.
ImageRejectDegrades(i, E) ==
  /\ pc[i] = "awaitImage"
  /\ \E e \in E :
       /\ imageReply' = [imageReply EXCEPT ![i] = [k |-> "rejected", error |-> e]]
       /\ Respond(i, 200,
            successBody(originalWord[frame(i)], clueData[frame(i)],
                        Str(<<"https://placehold.co/400">>)))
       /\ pc' = [pc EXCEPT ![i] = "returned"]
  /\ UNCHANGED <<GEMINI_API_KEY, deployed, query, originalWord, clueData, textCalls,
                 imageCalls, textReply, thrown>>
ImageReject(i, E) ==
  /\ pc[i] = "awaitImage"
  /\ \E e \in E :
       /\ imageReply' = [imageReply EXCEPT ![i] = [k |-> "rejected", error |-> e]]
       /\ Catch(i, e)
  /\ UNCHANGED <<GEMINI_API_KEY, deployed, query, originalWord, clueData, textCalls,
                 imageCalls, textReply, thrown>>

(***************************** specifications ******************************)
\* One request, any word and any behaviour of the collaborators.
Next ==
  \/ Invoke(1, Queries)
  \/ TextResolve(1, TextResolutions)
  \/ TextReject(1, CallErrors)
  \/ ImageResolve(1, ImageResolutions)
  \/ ImageReject(1, CallErrors)

Spec == Init /\ [][Next]_vars

\* Several requests, interleaved at their awaits.
ConcNext ==
  \E i \in Inv :
    \/ Invoke(i, ConcQueries)
    \/ TextResolve(i, ConcTextResolutions)
    \/ TextReject(i, ConcCallErrors)
    \/ ImageResolve(i, ConcImageResolutions)
    \/ ImageReject(i, ConcCallErrors)

ConcSpec == Init /\ [][ConcNext]_vars

(******************************** claims ***********************************)
Done(i) == pc[i] \in {"returned", "rejected"}
MissingWord(q) == q = Undefined \/ q = Str(<< >>)
PresentWord(q) == q.t = "string" /\ q.s # << >>
TheResponse(i) == responses[i][1]
Responded(i, status) == Len(responses[i]) = 1 /\ TheResponse(i).status = status
GenericError == Str(<<"Failed to generate word data or image.">>)
ResultKeys == {"originalWord", "definition", "sentenceClue", "imageUrl"}

\* needle is a run of consecutive pieces of hay.
Contains(hay, needle) ==
  \E k \in 0..(Len(hay) - Len(needle)) : SubSeq(hay, k + 1, k + Len(needle)) = needle

TextResolved(i) == textReply[i].k = "resolved"
TextRejected(i) == textReply[i].k = "rejected"
ImageResolved(i) == imageReply[i].k = "resolved"
ImageRejected(i) == imageReply[i].k = "rejected"
HasText(i) == TextResolved(i) /\ textReply[i].value.text.t = "string"
\* The reply text the handler parses is JSON.
TextParses(i) == HasText(i) /\ JSONparse(trim(textReply[i].value.text.s)).ok
TextUnparsable(i) == HasText(i) /\ ~JSONparse(trim(textReply[i].value.text.s)).ok
ParsedClue(i) == JSONparse(trim(textReply[i].value.text.s)).value
HasBothKeys(v) == v.t = "object" /\ {"definition", "sentenceClue"} \subseteq DOMAIN v.o
\* The image reply has no first image: generatedImages, its first entry or
\* that entry's image is missing (undefined) or null, or the list is empty.
Missing == {[t |-> "undefined"], [t |-> "null"]}
NoImage(i) ==
  /\ ImageResolved(i)
  /\ LET g == imageReply[i].value.generatedImages
     IN \/ g \in Missing
        \/ Len(g.a) = 0
        \/ g.a[1] \in Missing
        \/ g.a[1].image \in Missing
FirstPayload(i) ==
  getProp(imageReply[i].value.generatedImages.a[1].image, "imageBytes")
\* The image reply's first image carries a payload; the image reply carries
\* none (no first image, or a first image without imageBytes).
HasPayload(i) ==
  ImageResolved(i) /\ ~NoImage(i) /\ FirstPayload(i).t = "string"
NoPayload(i) == ImageResolved(i) /\ ~HasPayload(i)

\* C1: every invocation that has ended, whatever its word and whatever the
\* collaborators did, emitted exactly one response, of status 200, 400 or
\* 500, and let no exception escape.
C1_ExactlyOneResponse ==
  \A i \in Inv :
    Done(i) =>
      /\ Len(responses[i]) = 1
      /\ TheResponse(i).status \in {200, 400, 500}
      /\ thrown[i] = Undefined
      /\ pc[i] = "returned"

\* C2: a request without a word (absent or empty) is answered 400 with the
\* body that is exactly {error: "Missing word parameter"} and calls no
\* collaborator.
C2_MissingWordAsStated ==
  \A i \in Inv :
    (pc[i] # "idle" /\ MissingWord(query[i])) =>
      /\ responses[i] =
           <<[status |-> 400, body |-> [error |-> Str(<<"Missing word parameter">>)]]>>
      /\ textCalls[i] = << >> /\ imageCalls[i] = << >>

\* C3: with a word present, when a step after validation fails (the text call
\* fails; its reply is malformed: no text, text that is not JSON, or JSON
\* without definition or sentenceClue; the image call fails or its reply has
\* no image), the one response is 500 with the generic message and the
\* description of the underlying error and with no field of a result; and no
\* collaborator is ever called twice by one invocation.
Malformed(i) ==
  TextResolved(i) /\ (~TextParses(i) \/ ~HasBothKeys(ParsedClue(i)))
StepFailed(i) ==
  \/ TextRejected(i)
  \/ Malformed(i)
  \/ ImageRejected(i)
  \/ NoImage(i)
C3_FailureIs500 ==
  \A i \in Inv :
    /\ Len(textCalls[i]) <= 1 /\ Len(imageCalls[i]) <= 1
    /\ (Done(i) /\ PresentWord(query[i]) /\ StepFailed(i)) =>
         /\ Responded(i, 500)
         /\ DOMAIN TheResponse(i).body = {"error", "details"}
         /\ TheResponse(i).body.error = GenericError
         /\ TheResponse(i).body.details.t = "string"
         /\ TheResponse(i).body.details.s # << >>
         /\ TextRejected(i) =>
              TheResponse(i).body.details = textReply[i].error.message
         /\ ImageRejected(i) =>
              TheResponse(i).body.details = imageReply[i].error.message
         /\ DOMAIN TheResponse(i).body \cap ResultKeys = {}

\* C4: with a word present, when the text collaborator's text is not valid
\* JSON, the response is 500, its body includes the raw text the
\* collaborator returned (in details or in raw), and the image collaborator
\* is not called.
BodyIncludes(body, raw) ==
  \/ "details" \in DOMAIN body /\ Contains(body.details.s, raw)
  \/ "raw" \in DOMAIN body /\ Contains(body.raw.s, raw)
C4_RawTextInBody ==
  \A i \in Inv :
    (Done(i) /\ PresentWord(query[i]) /\ TextUnparsable(i)) =>
      /\ Responded(i, 500)
      /\ BodyIncludes(TheResponse(i).body, sourceChars(textReply[i].value.text.s))
      /\ imageCalls[i] = << >>

\* C5: with a word present, when the text collaborator's text is valid JSON
\* without definition or without sentenceClue, the response is 500, never a
\* 200 whose definition or sentenceClue is absent.
C5_MissingKeysIs500 ==
  \A i \in Inv :
    (Done(i) /\ PresentWord(query[i]) /\ TextParses(i) /\ ~HasBothKeys(ParsedClue(i))) =>
      /\ Responded(i, 500)
      /\ ~(TheResponse(i).status = 200
           /\ ~({"definition", "sentenceClue"} \subseteq DOMAIN TheResponse(i).body))

\* C6 as stated: with a word present and a well-formed text reply, when the
\* image call fails or its reply has no image payload, the response is still
\* 200, with a placeholder imageUrl and the text reply's definition and
\* sentenceClue.
ImageFailed(i) == ImageRejected(i) \/ NoPayload(i)
C6_DegradesAsStated ==
  \A i \in Inv :
    (Done(i) /\ PresentWord(query[i]) /\ TextParses(i) /\ HasBothKeys(ParsedClue(i))
       /\ ImageFailed(i)) =>
      /\ Responded(i, 200)
      /\ "imageUrl" \in DOMAIN TheResponse(i).body
      /\ Head(TheResponse(i).body.imageUrl.s) # "data:image/jpeg;base64,"
      /\ TheResponse(i).body.definition = ParsedClue(i).o["definition"]
      /\ TheResponse(i).body.sentenceClue = ParsedClue(i).o["sentenceClue"]

\* C6 amended: with a word present and a well-formed text reply, when the
\* image call fails or its reply has no image payload, the handler never
\* degrades to a placeholder.  If the call fails or the reply has no first
\* image, the whole request fails with the one response 500 {error, details},
\* which has no imageUrl, no definition and no sentenceClue.  If the first
\* image is there without imageBytes, the response is 200 with the reply's
\* definition and sentenceClue and the data URL built from the missing value,
\* "data:image/jpeg;base64,undefined" (or "...,null").
C6_NoPlaceholder ==
  \A i \in Inv :
    (Done(i) /\ PresentWord(query[i]) /\ TextParses(i) /\ HasBothKeys(ParsedClue(i))
       /\ ImageFailed(i)) =>
      IF ImageRejected(i) \/ NoImage(i)
      THEN /\ Responded(i, 500)
           /\ DOMAIN TheResponse(i).body = {"error", "details"}
           /\ TheResponse(i).body.error = GenericError
      ELSE /\ Responded(i, 200)
           /\ DOMAIN TheResponse(i).body = ResultKeys
           /\ TheResponse(i).body.imageUrl =
                Str(<<"data:image/jpeg;base64,", FirstPayload(i).t>>)
           /\ FirstPayload(i) \in Missing
           /\ TheResponse(i).body.definition = ParsedClue(i).o["definition"]
           /\ TheResponse(i).body.sentenceClue = ParsedClue(i).o["sentenceClue"]

C6_Witness ==
  \E i \in Inv :
    /\ Done(i) /\ PresentWord(query[i]) /\ TextParses(i) /\ HasBothKeys(ParsedClue(i))
    /\ ImageResolved(i)
    /\ imageReply[i].value.generatedImages = Arr(<<[image |-> Null]>>)
    /\ Responded(i, 500)

\* C7: with a word present, when both collaborators succeed (valid JSON with
\* definition and sentenceClue, an image payload) the response is 200 with
\* the uppercased word, the reply's definition and sentenceClue and the data
\* URL of the payload; and a 200 response is emitted only in this case.
BothSucceed(i) ==
  TextParses(i) /\ HasBothKeys(ParsedClue(i)) /\ HasPayload(i)
C7_SuccessOnlyWhenBothSucceed ==
  \A i \in Inv :
    (Done(i) /\ PresentWord(query[i])) =>
      /\ BothSucceed(i) =>
           responses[i] =
             <<[status |-> 200,
                body |-> [originalWord |-> Str(toUpperCase(query[i].s)),
                          definition |-> ParsedClue(i).o["definition"],
                          sentenceClue |-> ParsedClue(i).o["sentenceClue"],
                          imageUrl |-> Str(<<"data:image/jpeg;base64,">>
                                             \o FirstPayload(i).s)]]>>
      /\ (Len(responses[i]) > 0 /\ TheResponse(i).status = 200) => BothSucceed(i)

\* C8: with a word present, the word is uppercased once and only that form is
\* used: the prompt passed to the text collaborator, the prompt passed to the
\* image collaborator and originalWord of the response carry the uppercased
\* word, and a word that differs from it only in letter case gives the same
\* prompts and the same originalWord.
LowerLetters == {"a", "b"}
CasePairs == {{"a", "A"}, {"b", "B"}}
SameLetter(c, d) == c = d \/ {c, d} \in CasePairs
\* u is w with every letter in upper case.
IsUppercased(u, w) ==
  /\ Len(u) = Len(w)
  /\ \A k \in 1..Len(w) : u[k] \notin LowerLetters /\ SameLetter(u[k], w[k])
CaseVariants(w) ==
  {v \in WordsOfLen(Len(w)) : \A k \in 1..Len(w) : SameLetter(v[k], w[k])}
C8_UppercasedEverywhere ==
  \A i \in Inv :
    (pc[i] # "idle" /\ PresentWord(query[i])) =>
      /\ originalWord[i].t = "string"
      /\ IsUppercased(originalWord[i].s, query[i].s)
      /\ textCalls[i] = <<textPromptOf(originalWord[i].s)>>
      /\ imageCalls[i] \in {<< >>, <<imagePromptOf(originalWord[i].s)>>}
      /\ Responded(i, 200) => TheResponse(i).body.originalWord = originalWord[i]
      /\ \A v \in CaseVariants(query[i].s) :
           /\ textPromptOf(toUpperCase(v)) = textCalls[i][1]
           /\ imageCalls[i] # << >> => imagePromptOf(toUpperCase(v)) = imageCalls[i][1]
           /\ Responded(i, 200) => TheResponse(i).body.originalWord.s = toUpperCase(v)
      /\ \A j \in Inv :
           (pc[j] # "idle" /\ PresentWord(query[j])
              /\ query[j].s \in CaseVariants(query[i].s)) =>
             /\ textCalls[j] = textCalls[i]
             /\ (imageCalls[i] # << >> /\ imageCalls[j] # << >>) =>
                  imageCalls[j] = imageCalls[i]
             /\ (Responded(i, 200) /\ Responded(j, 200)) =>
                  TheResponse(j).body.originalWord = TheResponse(i).body.originalWord

C8_Witness ==
  \E i, j \in Inv :
    /\ query[i] = Str(<<"a", "b">>) /\ query[j] = Str(<<"A", "b">>)
    /\ Responded(i, 200) /\ Responded(j, 200)
    /\ TheResponse(i).body.originalWord = Str(<<"A", "B">>)
    /\ Len(imageCalls[i]) = 1 /\ Len(imageCalls[j]) = 1

\* C9: within one invocation the two collaborator calls are never in flight
\* together; the image call is issued only after the text call resolved and
\* its reply parsed, and never if the text call failed or its reply did not
\* parse; and the response is sent only when no call of the invocation is
\* still in flight.
C9_CallsInOrder ==
  \A i \in Inv :
    /\ ~(textReply[i] = Pending /\ imageReply[i] = Pending)
    /\ (imageCalls[i] # << >> \/ imageReply[i] # NotIssued) => TextParses(i)
    /\ (TextRejected(i) \/ (TextResolved(i) /\ ~TextParses(i))) =>
         imageCalls[i] = << >> /\ imageReply[i] = NotIssued
    /\ responses[i] # << >> => textReply[i] # Pending /\ imageReply[i] # Pending
    /\ pc[i] = "awaitText" <=> textReply[i] = Pending
    /\ pc[i] = "awaitImage" <=> imageReply[i] = Pending

C9_Witness ==
  \E i, j \in Inv :
    /\ i # j
    /\ pc[i] = "awaitImage" /\ imageReply[i] = Pending /\ TextParses(i)
    /\ pc[j] = "returned" /\ TextResolved(j) /\ ~TextParses(j) /\ imageCalls[j] = << >>

\* C10: invocations share no mutable state.  What an invocation that has
\* ended did (its calls, its responses, the error that escaped it) is what
\* the handler does alone with that invocation's word and that invocation's
\* replies, whatever the other invocations were given and however they
\* interleaved; so two invocations with the same word and the same replies
\* end with the same status and body.
Alone(q, tr, ir) ==
  IF MissingWord(q)
  THEN [responses |-> <<[status |-> 400, body |-> json(missingWordBody)]>>,
        escaped |-> FALSE, prompts |-> << >>]
  ELSE IF q.t # "string"
  THEN [responses |-> << >>, escaped |-> TRUE, prompts |-> << >>]
  ELSE LET ow == Str(toUpperCase(q.s))
           failed(e, n) ==
             [responses |-> <<[status |-> 500, body |-> json(errorBody(e))]>>,
              escaped |-> FALSE,
              prompts |-> SubSeq(<<textPromptOf(ow.s), imagePromptOf(ow.s)>>, 1, n)]
       IN IF tr.k = "rejected" THEN failed(tr.error, 1)
          ELSE LET clue == parseReply(tr.value)
               IN IF ~clue.ok THEN failed(clue.error, 1)
                  ELSE IF ir.k = "rejected" THEN failed(ir.error, 2)
                  ELSE LET end == finish(ow, clue.value, ir.value)
                       IN IF ~end.ok THEN failed(end.error, 2)
                          ELSE [responses |-> <<[status |-> 200, body |-> json(end.value)]>>,
                                escaped |-> FALSE,
                                prompts |-> <<textPromptOf(ow.s), imagePromptOf(ow.s)>>]
C10_Independent ==
  /\ \A i \in Inv :
       Done(i) =>
         LET alone == Alone(query[i], textReply[i], imageReply[i])
         IN /\ responses[i] = alone.responses
            /\ (thrown[i] # Undefined) = alone.escaped
            /\ textCalls[i] \o imageCalls[i] = alone.prompts
  /\ \A i, j \in Inv :
       (Done(i) /\ Done(j) /\ query[i] = query[j] /\ textReply[i] = textReply[j]
          /\ imageReply[i] = imageReply[j]) =>
         responses[i] = responses[j] /\ thrown[i] = thrown[j]

C10_Witness ==
  \E i, j \in Inv :
    /\ i # j /\ Responded(i, 200) /\ Responded(j, 200)
    /\ TheResponse(i).body.originalWord # TheResponse(j).body.originalWord
    /\ TheResponse(i).body.definition # TheResponse(j).body.definition
    /\ TheResponse(i).body.imageUrl # TheResponse(j).body.imageUrl

====
